---- MODULE Spec2Model ----
(***************************************************************************)
(* Model of common/buf/io.go: the Copy engine (copyInternal, Copy), the    *)
(* reader/writer factories and the adapters they construct.                *)
(*                                                                         *)
(* The specifications share the variables:                                 *)
(*   Spec      one run of Copy(timer, reader, writer)                      *)
(*   SpecLive  Spec with the engine's own statements weakly fair           *)
(*   SpecMW    writes through a writer built by NewMergingWriterSize       *)
(*   SpecRT    reads through ToBytesReader(NewReader(raw stream))          *)
(*   SpecPair  two concurrent runs of Copy sharing the timer               *)
(*   SpecFac   a relay through the adapters the factories return           *)
(***************************************************************************)
EXTENDS Integers, Sequences, FiniteSets, TLC

\* ---------------------------------------------------------------- bounds
MaxReads == 3        \* Read calls one run of Copy may issue
MaxChunkLen == 2     \* longest chunk payload a source hands out
MaxMergeSize == 3    \* largest size given to NewMergingWriterSize
MaxWrites == 4       \* Write calls made on one merging writer
MaxStream == 4       \* bytes a raw stream holds
MaxScratch == 2      \* largest size given to NewMergingReaderSize
MaxRequest == 3      \* longest byte slice a caller reads into
MaxCalls == 6        \* Read calls made on one bufferToBytesReader
MaxPairReads == 2    \* Read calls of each of two concurrent Copy runs

\* make([]byte, 32*1024) in NewReader and NewMergingReader
ScratchSize == 32768

\* NewMergingWriterSize(writer, 4096) in NewMergingWriter
MergeSize == 4096

\* ---------------------------------------------------------------- errors
\* An error value is the chain of its messages, outermost first; the last
\* element is the root cause.  The nil error is the empty chain.
Nil == <<>>
EOF == <<"EOF">>
WrappedEOF == <<"connection ended", "EOF">>
ErrReadTimeout == <<"IO timeout">>
ErrIO == <<"broken pipe">>

Errors == {EOF, WrappedEOF, ErrReadTimeout, ErrIO}

\* errors.Cause: walk the chain down to the root error.
Cause(e) == IF e = Nil THEN Nil ELSE <<e[Len(e)]>>

\* ---------------------------------------------------------------- chunks
\* A chunk (MultiBuffer) is identified by the ordinal of the Read that
\* produced it; id 0 is the nil MultiBuffer.  All bytes of chunk i are i.
NoChunk == [id |-> 0, data |-> <<>>]
MkChunk(i, n) == [id |-> i, data |-> [k \in 1..n |-> i]]

IsEmpty(b) == Len(b.data) = 0

ChunkIds == 1..MaxReads

VARIABLES
  pc,          \* position of the Copy run
  buffer,      \* copyInternal: buffer returned by reader.Read()
  err,         \* copyInternal: err returned by reader.Read()
  werr,        \* copyInternal: err returned by writer.Write(buffer)
  ret,         \* value copyInternal returned
  result,      \* value Copy returned
  timerMarks,  \* number of timer.Update() calls
  readLog,     \* every Read so far: [chunk, err]
  writeLog,    \* every Write so far: [chunk, err]
  relEngine,   \* Release calls made by copyInternal, per chunk id
  relSink,     \* Release calls made by the writer, per chunk id
  sinkKind,    \* which Writer the sink is
  sinkData,    \* bytes the sink has accepted
  mw,          \* the mergingWriter: [cap, buffered]
  mwEnv,       \* its surroundings: [size, under, arrived, flushed, writes,
               \*   released]
  rtReader,    \* the Reader a reader factory returned: [kind, bufLen]
  rtBytes,     \* the bufferToBytesReader: [stream, current, err]
  rtEnv,       \* its surroundings: [content, pos, out, chunks, held,
               \*   released, calls]
  eng,         \* two Copy runs side by side: engine -> [pc, buffer, err,
               \*   werr, ret, result, reads, writes, sink, releases]
  sharedMarks, \* timer.Update() calls on the timer the two runs share
  handles,     \* the handles given to the factories and the factory
               \*   called on each: [reader, writer]
  fWriter      \* the Writer a writer factory returned: [kind, bufLen]

copyVars == <<pc, buffer, err, werr, ret, result, timerMarks, readLog,
              writeLog, relEngine, relSink, sinkKind, sinkData>>

mwVars == <<mw, mwEnv>>

rtVars == <<rtReader, rtBytes, rtEnv>>

pairVars == <<eng, sharedMarks>>

facVars == <<handles, fWriter>>

vars == <<copyVars, mwVars, rtVars, pairVars, facVars>>

SinkKinds == {"BufferToBytesWriter", "other"}

\* ------------------------------------------------------------------ sink
\* BufferToBytesWriter.Write: one write to the underlying stream, then the
\* chunk is released whatever the outcome.
PassThroughReleases(e) == 1

\* A Writer that takes the chunk over when it succeeds and leaves it to
\* the caller when it fails (the contract copyInternal's release assumes).
OtherReleases(e) == 0

SinkReleases(kind, e) ==
  IF kind = "BufferToBytesWriter" THEN PassThroughReleases(e)
  ELSE OtherReleases(e)

\* Values of the adapters' variables while no adapter is under study.
IdleMW == [cap |-> 0, buffered |-> <<>>]
IdleMWEnv == [size |-> 0, under |-> <<>>, arrived |-> <<>>,
              flushed |-> FALSE, writes |-> 0, released |-> 0]
IdleReader == [kind |-> "none", bufLen |-> 0]
IdleBytes == [stream |-> IdleReader, current |-> <<>>, err |-> Nil]
IdleRTEnv == [content |-> <<>>, pos |-> 0, out |-> <<>>, chunks |-> <<>>,
              held |-> FALSE, released |-> 0, calls |-> 0]

Engines == {1, 2}
IdleEngine == [pc |-> "idle", buffer |-> NoChunk, err |-> Nil, werr |-> Nil,
               ret |-> Nil, result |-> Nil, reads |-> <<>>, writes |-> <<>>,
               sink |-> <<>>, releases |-> 0]
IdleHandle == [native |-> FALSE, factory |-> "none", size |-> 0]
IdleHandles == [reader |-> IdleHandle, writer |-> IdleHandle]
IdleWriter == [kind |-> "none", bufLen |-> 0]

\* ------------------------------------------------------------------ Copy
CopyResultNoSwallow(e) == e

CopyResultAlwaysNil(e) == Nil

\* Copy: the error of copyInternal unless its root cause is io.EOF.
CopyResult(e) == IF e # Nil /\ Cause(e) # EOF THEN e ELSE Nil

Init ==
  /\ pc = "read"
  /\ buffer = NoChunk
  /\ err = Nil
  /\ werr = Nil
  /\ ret = Nil
  /\ result = Nil
  /\ timerMarks = 0
  /\ readLog = <<>>
  /\ writeLog = <<>>
  /\ relEngine = [i \in ChunkIds |-> 0]
  /\ relSink = [i \in ChunkIds |-> 0]
  /\ sinkKind \in SinkKinds
  /\ sinkData = <<>>
  /\ mw = IdleMW
  /\ mwEnv = IdleMWEnv
  /\ rtReader = IdleReader
  /\ rtBytes = IdleBytes
  /\ rtEnv = IdleRTEnv
  /\ eng = [e \in Engines |-> IdleEngine]
  /\ sharedMarks = 0
  /\ handles = IdleHandles
  /\ fWriter = IdleWriter

\* What one reader.Read() may return: a chunk and no error, an error and
\* no chunk, or an error together with a chunk.
ReadOutcomes(i) ==
  [chunk : {MkChunk(i, n) : n \in 0..MaxChunkLen}, err : {Nil}]
    \cup [chunk : {NoChunk}, err : Errors]
    \cup [chunk : {MkChunk(i, n) : n \in 1..MaxChunkLen}, err : Errors]

\* buffer, err := reader.Read()
Read ==
  /\ pc = "read"
  /\ Len(readLog) < MaxReads
  /\ \E o \in ReadOutcomes(Len(readLog) + 1) :
       /\ buffer' = o.chunk
       /\ err' = o.err
       /\ readLog' = Append(readLog, o)
  /\ pc' = "checkErr"
  /\ UNCHANGED <<werr, ret, result, timerMarks, writeLog, relEngine,
                 relSink, sinkKind, sinkData>>
  /\ UNCHANGED <<mwVars, rtVars, pairVars, facVars>>

ReadErrorRetryTimeout ==
  /\ pc = "checkErr"
  /\ err # Nil
  /\ ret' = IF err = ErrReadTimeout THEN ret ELSE err
  /\ pc' = IF err = ErrReadTimeout THEN "read" ELSE "return"
  /\ UNCHANGED <<buffer, err, werr, result, timerMarks, readLog, writeLog,
                 relEngine, relSink, sinkKind, sinkData>>
  /\ UNCHANGED <<mwVars, rtVars, pairVars, facVars>>

\* if err != nil { return err }
ReadError ==
  /\ pc = "checkErr"
  /\ err # Nil
  /\ ret' = err
  /\ pc' = "return"
  /\ UNCHANGED <<buffer, err, werr, result, timerMarks, readLog, writeLog,
                 relEngine, relSink, sinkKind, sinkData>>
  /\ UNCHANGED <<mwVars, rtVars, pairVars, facVars>>

TimerUpdateOnPayloadOnly ==
  /\ pc = "checkErr"
  /\ err = Nil
  /\ timerMarks' = IF IsEmpty(buffer) THEN timerMarks ELSE timerMarks + 1
  /\ pc' = "checkEmpty"
  /\ UNCHANGED <<buffer, err, werr, ret, result, readLog, writeLog,
                 relEngine, relSink, sinkKind, sinkData>>
  /\ UNCHANGED <<mwVars, rtVars, pairVars, facVars>>

\* timer.Update()
TimerUpdate ==
  /\ pc = "checkErr"
  /\ err = Nil
  /\ timerMarks' = timerMarks + 1
  /\ pc' = "checkEmpty"
  /\ UNCHANGED <<buffer, err, werr, ret, result, readLog, writeLog,
                 relEngine, relSink, sinkKind, sinkData>>
  /\ UNCHANGED <<mwVars, rtVars, pairVars, facVars>>

\* MultiBuffer.Release() called by copyInternal; a nil buffer has nothing
\* to release.
EngineRelease(b) ==
  IF b.id = 0 THEN relEngine
  ELSE [relEngine EXCEPT ![b.id] = @ + 1]

SkipEmptyNoRelease ==
  /\ pc = "checkEmpty"
  /\ IsEmpty(buffer)
  /\ pc' = "read"
  /\ UNCHANGED <<buffer, err, werr, ret, result, timerMarks, readLog,
                 writeLog, relEngine, relSink, sinkKind, sinkData>>
  /\ UNCHANGED <<mwVars, rtVars, pairVars, facVars>>

SkipEmptyReturns ==
  /\ pc = "checkEmpty"
  /\ IsEmpty(buffer)
  /\ relEngine' = EngineRelease(buffer)
  /\ pc' = "return"
  /\ UNCHANGED <<buffer, err, werr, ret, result, timerMarks, readLog,
                 writeLog, relSink, sinkKind, sinkData>>
  /\ UNCHANGED <<mwVars, rtVars, pairVars, facVars>>

\* if buffer.IsEmpty() { buffer.Release(); continue }
SkipEmpty ==
  /\ pc = "checkEmpty"
  /\ IsEmpty(buffer)
  /\ relEngine' = EngineRelease(buffer)
  /\ pc' = "read"
  /\ UNCHANGED <<buffer, err, werr, ret, result, timerMarks, readLog,
                 writeLog, relSink, sinkKind, sinkData>>
  /\ UNCHANGED <<mwVars, rtVars, pairVars, facVars>>

WriteIgnoringError ==
  /\ pc = "checkEmpty"
  /\ ~IsEmpty(buffer)
  /\ \E e \in {Nil} \cup Errors :
       /\ werr' = e
       /\ writeLog' = Append(writeLog, [chunk |-> buffer, err |-> e])
       /\ sinkData' = IF e = Nil THEN sinkData \o buffer.data ELSE sinkData
       /\ relSink' = [relSink EXCEPT
                        ![buffer.id] = @ + SinkReleases(sinkKind, e)]
       /\ pc' = "read"
  /\ UNCHANGED <<buffer, err, ret, result, timerMarks, readLog, relEngine,
                 sinkKind>>
  /\ UNCHANGED <<mwVars, rtVars, pairVars, facVars>>

\* err := writer.Write(buffer)
Write ==
  /\ pc = "checkEmpty"
  /\ ~IsEmpty(buffer)
  /\ \E e \in {Nil} \cup Errors :
       /\ werr' = e
       /\ writeLog' = Append(writeLog, [chunk |-> buffer, err |-> e])
       /\ sinkData' = IF e = Nil THEN sinkData \o buffer.data ELSE sinkData
       /\ relSink' = [relSink EXCEPT
                        ![buffer.id] = @ + SinkReleases(sinkKind, e)]
       /\ pc' = IF e = Nil THEN "read" ELSE "writeFail"
  /\ UNCHANGED <<buffer, err, ret, result, timerMarks, readLog, relEngine,
                 sinkKind>>
  /\ UNCHANGED <<mwVars, rtVars, pairVars, facVars>>

\* if err != nil { buffer.Release(); return err }
WriteError ==
  /\ pc = "writeFail"
  /\ relEngine' = EngineRelease(buffer)
  /\ ret' = werr
  /\ pc' = "return"
  /\ UNCHANGED <<buffer, err, werr, result, timerMarks, readLog, writeLog,
                 relSink, sinkKind, sinkData>>
  /\ UNCHANGED <<mwVars, rtVars, pairVars, facVars>>

\* Copy: translate what copyInternal returned and return.
CopyReturn ==
  /\ pc = "return"
  /\ result' = CopyResult(ret)
  /\ pc' = "done"
  /\ UNCHANGED <<buffer, err, werr, ret, timerMarks, readLog, writeLog,
                 relEngine, relSink, sinkKind, sinkData>>
  /\ UNCHANGED <<mwVars, rtVars, pairVars, facVars>>

Next ==
  \/ Read
  \/ ReadError
  \/ TimerUpdate
  \/ SkipEmpty
  \/ Write
  \/ WriteError
  \/ CopyReturn

Spec == Init /\ [][Next]_vars

\* The engine's own statements run on once they can: only reader.Read()
\* and writer.Write() block, for as long as the handles decide.
SpecLive ==
  /\ Init
  /\ [][Next]_vars
  /\ WF_vars(ReadError)
  /\ WF_vars(TimerUpdate)
  /\ WF_vars(SkipEmpty)
  /\ WF_vars(WriteError)
  /\ WF_vars(CopyReturn)

\* ------------------------------------------------- properties of Copy
LastRead == readLog[Len(readLog)]
LastWrite == writeLog[Len(writeLog)]

\* The chunks of the successful reads, and those among them with payload.
RECURSIVE ProducedFrom(_)
ProducedFrom(log) ==
  IF log = <<>> THEN <<>>
  ELSE IF Head(log).err = Nil /\ ~IsEmpty(Head(log).chunk)
       THEN <<Head(log).chunk>> \o ProducedFrom(Tail(log))
       ELSE ProducedFrom(Tail(log))

\* The chunks the sink accepted (Write returned nil), in order.
RECURSIVE DeliveredFrom(_)
DeliveredFrom(log) ==
  IF log = <<>> THEN <<>>
  ELSE IF Head(log).err = Nil
       THEN <<Head(log).chunk>> \o DeliveredFrom(Tail(log))
       ELSE DeliveredFrom(Tail(log))

RECURSIVE SuccessfulReads(_)
SuccessfulReads(log) ==
  IF log = <<>> THEN 0
  ELSE (IF Head(log).err = Nil THEN 1 ELSE 0) + SuccessfulReads(Tail(log))

Releases(i) == relEngine[i] + relSink[i]

HandedToSink(i) == \E k \in 1..Len(writeLog) : writeLog[k].chunk.id = i

\* C1: once the source's Read has reported io.EOF (after any number of
\* transferred chunks, all writes having succeeded) the engine issues no
\* further Read or Write, heads for its return, and Copy returns nil.
C1_EofReturnsNil ==
  (Len(readLog) > 0 /\ LastRead.err = EOF) =>
     /\ pc \in {"checkErr", "return", "done"}
     /\ \A k \in 1..Len(writeLog) : writeLog[k].err = Nil
     /\ pc = "done" => result = Nil

C1_Witness ==
  /\ pc = "done"
  /\ LastRead.err = EOF
  /\ Len(writeLog) = 2
  /\ result = Nil

\* C2: once the source's Read has failed with an error whose root cause is
\* not io.EOF (ErrReadTimeout in particular) the engine issues no further
\* Read or Write and Copy returns that very error, never nil.
C2_ReadErrorPropagated ==
  (Len(readLog) > 0 /\ LastRead.err # Nil /\ Cause(LastRead.err) # EOF) =>
     /\ pc \in {"checkErr", "return", "done"}
     /\ pc = "done" => (result = LastRead.err /\ result # Nil)

C2_Witness ==
  /\ pc = "done"
  /\ LastRead.err = ErrReadTimeout
  /\ Len(writeLog) >= 1
  /\ result = ErrReadTimeout

\* C3: when the sink's Write fails on a non-empty chunk, whatever the
\* failure value is, Copy returns exactly that failure.
C3_WriteErrorPropagated ==
  (pc = "done" /\ Len(writeLog) > 0 /\ LastWrite.err # Nil) =>
     result = LastWrite.err

\* C4: a chunk whose Write failed has been released exactly once in total
\* (engine and writer together) when copyInternal returns.
C4_ReleasedExactlyOnce ==
  (pc \in {"return", "done"} /\ Len(writeLog) > 0 /\ LastWrite.err # Nil) =>
     Releases(LastWrite.chunk.id) = 1

\* C5: an empty chunk returned by a successful Read is released exactly
\* once by the engine (once the emptiness test has run), never reaches the
\* sink, and does not end the loop: the engine goes on to the next Read.
C5_EmptyChunkSkipped ==
  \A i \in 1..Len(readLog) :
    (readLog[i].err = Nil /\ IsEmpty(readLog[i].chunk)) =>
       /\ ~HandedToSink(i)
       /\ relSink[i] = 0
       /\ relEngine[i] =
            IF i = Len(readLog) /\ pc \in {"checkErr", "checkEmpty"}
            THEN 0 ELSE 1
       /\ i = Len(readLog) => pc \in {"checkErr", "checkEmpty", "read"}

C5_Witness ==
  /\ Len(readLog) >= 2
  /\ readLog[1].err = Nil
  /\ IsEmpty(readLog[1].chunk)
  /\ relEngine[1] = 1
  /\ writeLog = <<>>

\* C6: when Copy returns nil the sink has accepted exactly the non-empty
\* chunks the source's successful reads produced, each once, in read order.
C6_SuccessDeliversAll ==
  (pc = "done" /\ result = Nil) =>
     DeliveredFrom(writeLog) = ProducedFrom(readLog)

\* C7: when Copy returns, every chunk a Read handed to the engine (also one
\* returned together with an error) was released or handed to a Write.
C7_NoChunkLeaked ==
  pc = "done" =>
     \A i \in 1..Len(readLog) :
        readLog[i].chunk.id # 0 => (Releases(i) >= 1 \/ HandedToSink(i))

InFlight ==
  {i \in 1..Len(readLog) :
     readLog[i].chunk.id # 0 /\ relEngine[i] = 0 /\ ~HandedToSink(i)}

\* Some Read or Write has returned an error.
ErrorSeen ==
  \/ \E i \in 1..Len(readLog) : readLog[i].err # Nil
  \/ \E k \in 1..Len(writeLog) : writeLog[k].err # Nil

\* C11: the engine is sequential.  It holds at most one chunk; a Read is
\* issued only when no chunk is held, every earlier Read was marked and the
\* previous Write succeeded; the mark of a Read comes before the Write of
\* its chunk; a Write carries the non-empty chunk of the latest Read.
C11_Sequential ==
  /\ [](Cardinality(InFlight) <= 1)
  /\ [][readLog' # readLog =>
          /\ InFlight = {}
          /\ timerMarks = SuccessfulReads(readLog)
          /\ writeLog # <<>> => LastWrite.err = Nil]_vars
  /\ [][timerMarks' # timerMarks =>
          /\ readLog # <<>>
          /\ LastRead.err = Nil
          /\ timerMarks = SuccessfulReads(readLog) - 1
          /\ ~HandedToSink(Len(readLog))]_vars
  /\ [][writeLog' # writeLog =>
          /\ timerMarks = SuccessfulReads(readLog)
          /\ ~IsEmpty(LastRead.chunk)
          /\ writeLog'[Len(writeLog')].chunk = LastRead.chunk
          /\ InFlight = {Len(readLog)}]_vars

C11_Witness ==
  /\ pc = "checkEmpty"
  /\ Len(readLog) = 3
  /\ Len(writeLog) = 2
  /\ timerMarks = 3
  /\ InFlight = {3}

\* C12: the first Read or Write that returns an error ends the copy: from
\* then on no Read, no Write and no timer mark happens; and no operation is
\* repeated: there is at most one Write per Read and no chunk is written
\* twice.
C12_NoRetry ==
  /\ [][ErrorSeen =>
          /\ readLog' = readLog
          /\ writeLog' = writeLog
          /\ timerMarks' = timerMarks]_vars
  /\ [](/\ Len(writeLog) <= Len(readLog)
        /\ \A j, k \in 1..Len(writeLog) :
             j # k => writeLog[j].chunk.id # writeLog[k].chunk.id)

C12_Witness ==
  /\ pc = "done"
  /\ Len(readLog) = 2
  /\ Len(writeLog) = 1
  /\ LastRead.err = ErrReadTimeout
  /\ timerMarks = 1

\* C13: Copy terminates if and only if a Read or a Write returns an error:
\* once one has, the engine reaches its end; while none has, the engine
\* has not returned.
C13_TerminatesIffError ==
  /\ ErrorSeen ~> pc = "done"
  /\ [](pc \in {"writeFail", "return", "done"} => ErrorSeen)

C13_Witness ==
  /\ pc = "done"
  /\ Len(readLog) = 2
  /\ IsEmpty(readLog[1].chunk)
  /\ writeLog # <<>>
  /\ LastWrite.err = ErrIO
  /\ result = ErrIO

\* C14: Copy returns nil exactly when the loop was ended by end-of-stream
\* from the source's Read; any other error that ended it, from the source
\* or from the sink, is what Copy returns.
C14_OnlySourceEofSwallowed ==
  pc = "done" =>
     IF writeLog # <<>> /\ LastWrite.err # Nil
     THEN result = LastWrite.err
     ELSE IF Cause(LastRead.err) = EOF
          THEN result = Nil
          ELSE result = LastRead.err

\* ------------------------------------------------------ merging writer
NewMergingWriterSizeZeroLen(size) == [cap |-> 0, buffered |-> <<>>]

\* NewMergingWriterSize: a mergingWriter whose buffer has `size` bytes.
NewMergingWriterSize(size) == [cap |-> size, buffered |-> <<>>]

InitMW ==
  /\ pc = "idle"
  /\ buffer = NoChunk
  /\ err = Nil
  /\ werr = Nil
  /\ ret = Nil
  /\ result = Nil
  /\ timerMarks = 0
  /\ readLog = <<>>
  /\ writeLog = <<>>
  /\ relEngine = [i \in ChunkIds |-> 0]
  /\ relSink = [i \in ChunkIds |-> 0]
  /\ sinkKind = "mergingWriter"
  /\ sinkData = <<>>
  /\ \E size \in 1..MaxMergeSize :
       /\ mw = NewMergingWriterSize(size)
       /\ mwEnv = [IdleMWEnv EXCEPT !.size = size]
  /\ rtReader = IdleReader
  /\ rtBytes = IdleBytes
  /\ rtEnv = IdleRTEnv
  /\ eng = [e \in Engines |-> IdleEngine]
  /\ sharedMarks = 0
  /\ handles = IdleHandles
  /\ fWriter = IdleWriter

\* The underlying stream after the buffered bytes were flushed to it; an
\* empty buffer issues no write.
Flushed(under, buffered) ==
  IF buffered = <<>> THEN under ELSE Append(under, buffered)

\* mergingWriter.Write(chunk): append to the buffer; when the chunk would
\* overflow it, flush the buffer first, then buffer the chunk if it fits
\* and write it through otherwise.  The chunk is released.
MergeWrite(w, under, data) ==
  IF Len(w.buffered) + Len(data) > w.cap
  THEN IF Len(data) <= w.cap
       THEN [w |-> [w EXCEPT !.buffered = data],
             under |-> Flushed(under, w.buffered)]
       ELSE [w |-> [w EXCEPT !.buffered = <<>>],
             under |-> Append(Flushed(under, w.buffered), data)]
  ELSE [w |-> [w EXCEPT !.buffered = w.buffered \o data], under |-> under]

\* A caller writes a chunk of n bytes; byte k of the stream has value k.
MWWrite ==
  /\ mwEnv.writes < MaxWrites
  /\ \E n \in 0..MaxChunkLen :
       LET data == [k \in 1..n |-> Len(mwEnv.arrived) + k]
           r == MergeWrite(mw, mwEnv.under, data)
       IN /\ mw' = r.w
          /\ mwEnv' = [mwEnv EXCEPT !.under = r.under,
                                    !.arrived = @ \o data,
                                    !.writes = @ + 1,
                                    !.released = @ + 1]
  /\ UNCHANGED <<copyVars, rtVars, pairVars, facVars>>

\* The caller's explicit final flush (close) of the merging writer.
MWFlush ==
  /\ ~mwEnv.flushed
  /\ mw' = [mw EXCEPT !.buffered = <<>>]
  /\ mwEnv' = [mwEnv EXCEPT !.under = Flushed(@, mw.buffered),
                            !.flushed = TRUE]
  /\ UNCHANGED <<copyVars, rtVars, pairVars, facVars>>

NextMW ==
  \/ MWWrite
  \/ MWFlush

SpecMW == InitMW /\ [][NextMW]_vars

RECURSIVE Flatten(_)
Flatten(ss) == IF ss = <<>> THEN <<>> ELSE Head(ss) \o Flatten(Tail(ss))

\* C9: while the chunks written so far total no more than the size the
\* merging writer was built with and no flush was asked for, the
\* underlying stream has received no write call; and at all times the bytes
\* it has received are a prefix, in arrival order, of the bytes written.
C9_MergedUntilFlush ==
  /\ (Len(mwEnv.arrived) <= mwEnv.size /\ ~mwEnv.flushed) =>
        mwEnv.under = <<>>
  /\ LET got == Flatten(mwEnv.under)
     IN /\ Len(got) <= Len(mwEnv.arrived)
        /\ got = SubSeq(mwEnv.arrived, 1, Len(got))

C9_Witness ==
  /\ ~mwEnv.flushed
  /\ mwEnv.size >= 2
  /\ mwEnv.writes >= 3
  /\ Len(mwEnv.under) = 1
  /\ Len(mwEnv.under[1]) = mwEnv.size
  /\ mw.buffered # <<>>

\* ---------------------------------------------------------- round trip
Min(a, b) == IF a < b THEN a ELSE b

NewReaderNoDispatch(isMultiBufferReader) ==
  [kind |-> "BytesToBufferReader", bufLen |-> ScratchSize]

\* NewReader: a forwarding adapter over a handle that is a
\* MultiBufferReader, else a BytesToBufferReader with a 32 KiB buffer.
NewReader(isMultiBufferReader) ==
  IF isMultiBufferReader
  THEN [kind |-> "readerAdpater", bufLen |-> 0]
  ELSE [kind |-> "BytesToBufferReader", bufLen |-> ScratchSize]

\* NewMergingReaderSize: a BytesToBufferReader with a buffer of `size`.
NewMergingReaderSize(size) ==
  [kind |-> "BytesToBufferReader", bufLen |-> size]

\* ToBytesReader: a bufferToBytesReader over the stream, nothing held.
ToBytesReader(stream) == [stream |-> stream, current |-> <<>>, err |-> Nil]

Readers ==
  {NewReader(b) : b \in BOOLEAN}
    \cup {NewMergingReaderSize(size) : size \in 1..MaxScratch}

InitRT ==
  /\ pc = "idle"
  /\ buffer = NoChunk
  /\ err = Nil
  /\ werr = Nil
  /\ ret = Nil
  /\ result = Nil
  /\ timerMarks = 0
  /\ readLog = <<>>
  /\ writeLog = <<>>
  /\ relEngine = [i \in ChunkIds |-> 0]
  /\ relSink = [i \in ChunkIds |-> 0]
  /\ sinkKind = "none"
  /\ sinkData = <<>>
  /\ mw = IdleMW
  /\ mwEnv = IdleMWEnv
  /\ rtReader \in Readers
  /\ rtBytes = ToBytesReader(rtReader)
  /\ \E n \in 1..MaxStream :
       rtEnv = [IdleRTEnv EXCEPT !.content = [k \in 1..n |-> k]]
  /\ eng = [e \in Engines |-> IdleEngine]
  /\ sharedMarks = 0
  /\ handles = IdleHandles
  /\ fWriter = IdleWriter

\* The byte counts one read of the raw handle may return through `stream`
\* when `left` bytes remain: a BytesToBufferReader reads into its scratch
\* buffer, a readerAdpater takes whatever batch the handle hands out.
ReadSizes(stream, left) ==
  IF stream.kind = "readerAdpater" THEN 0..left
  ELSE 0..Min(stream.bufLen, left)

\* What stream.Read() may return at raw position pos: a chunk wrapping
\* exactly the bytes read, io.EOF at the end of the stream, or a failure
\* of the handle.
StreamOutcomes(stream, content, pos) ==
  LET left == Len(content) - pos
  IN [data : {SubSeq(content, pos + 1, pos + k) :
                k \in ReadSizes(stream, left)},
      err : {Nil}]
       \cup [data : {<<>>}, err : IF left = 0 THEN {EOF} ELSE {ErrIO}]

ConsumeDropRest(current, len) ==
  [taken |-> SubSeq(current, 1, Min(len, Len(current))), rest |-> <<>>]

\* Copy up to len bytes out of the held chunk and keep the rest of it.
Consume(current, len) ==
  LET n == Min(len, Len(current))
  IN [taken |-> SubSeq(current, 1, n),
      rest |-> SubSeq(current, n + 1, Len(current))]

\* bufferToBytesReader.Read(b) with len(b) = len: report a stored error;
\* fetch a chunk from the stream when none is held; hand out what fits and
\* hold the rest over; release the chunk once it is used up.
RTRead ==
  /\ rtBytes.err = Nil
  /\ rtEnv.calls < MaxCalls
  /\ \E len \in 1..MaxRequest :
       IF rtBytes.current # <<>>
       THEN LET c == Consume(rtBytes.current, len)
            IN /\ rtBytes' = [rtBytes EXCEPT !.current = c.rest]
               /\ rtEnv' = [rtEnv EXCEPT
                    !.calls = @ + 1,
                    !.out = @ \o c.taken,
                    !.held = @ \/ c.rest # <<>>,
                    !.released = @ + (IF c.rest = <<>> THEN 1 ELSE 0)]
       ELSE \E o \in StreamOutcomes(rtBytes.stream, rtEnv.content,
                                    rtEnv.pos) :
              IF o.err # Nil
              THEN /\ rtBytes' = [rtBytes EXCEPT !.err = o.err]
                   /\ rtEnv' = [rtEnv EXCEPT !.calls = @ + 1]
              ELSE LET c == Consume(o.data, len)
                   IN /\ rtBytes' = [rtBytes EXCEPT !.current = c.rest]
                      /\ rtEnv' = [rtEnv EXCEPT
                           !.pos = @ + Len(o.data),
                           !.chunks = Append(@, Len(o.data)),
                           !.calls = @ + 1,
                           !.out = @ \o c.taken,
                           !.held = @ \/ c.rest # <<>>,
                           !.released =
                              @ + (IF c.rest = <<>> THEN 1 ELSE 0)]
  /\ UNCHANGED <<copyVars, mwVars, rtReader, pairVars, facVars>>

NextRT ==
  \/ RTRead

SpecRT == InitRT /\ [][NextRT]_vars

\* C10: the bytes read through ToBytesReader(NewReader(raw)) are, at any
\* time and for any requested lengths and chunk boundaries, the bytes of
\* the raw stream from its start, in order and without gaps; once the
\* reader reports an error they are all the bytes the raw stream gave out
\* (the whole stream when the error is io.EOF).
C10_RoundTrip ==
  /\ Len(rtEnv.out) <= Len(rtEnv.content)
  /\ rtEnv.out = SubSeq(rtEnv.content, 1, Len(rtEnv.out))
  /\ rtBytes.err # Nil => rtEnv.out = SubSeq(rtEnv.content, 1, rtEnv.pos)
  /\ rtBytes.err = EOF => rtEnv.out = rtEnv.content

C10_Witness ==
  /\ rtReader = NewReader(FALSE)
  /\ rtBytes.err = EOF
  /\ Len(rtEnv.content) = MaxStream
  /\ rtEnv.out = rtEnv.content
  /\ Len(rtEnv.chunks) >= 2
  /\ rtEnv.held

\* ------------------------------------------- two concurrent Copy runs
\* Each direction of a pipe is its own goroutine calling Copy with its own
\* reader and writer; the two calls are given the same timer.
InitPair ==
  /\ pc = "idle"
  /\ buffer = NoChunk
  /\ err = Nil
  /\ werr = Nil
  /\ ret = Nil
  /\ result = Nil
  /\ timerMarks = 0
  /\ readLog = <<>>
  /\ writeLog = <<>>
  /\ relEngine = [i \in ChunkIds |-> 0]
  /\ relSink = [i \in ChunkIds |-> 0]
  /\ sinkKind = "none"
  /\ sinkData = <<>>
  /\ mw = IdleMW
  /\ mwEnv = IdleMWEnv
  /\ rtReader = IdleReader
  /\ rtBytes = IdleBytes
  /\ rtEnv = IdleRTEnv
  /\ eng = [e \in Engines |-> [IdleEngine EXCEPT !.pc = "read"]]
  /\ sharedMarks = 0
  /\ handles = IdleHandles
  /\ fWriter = IdleWriter

\* The k-th chunk of engine e's source: the two sources share no chunk.
PairChunk(e, k, n) == MkChunk(10 * e + k, n)

\* What a Read of engine e's source may return.
PairReadOutcomes(e, k) ==
  [chunk : {PairChunk(e, k, n) : n \in 0..1}, err : {Nil}]
    \cup [chunk : {NoChunk}, err : Errors]

\* buffer, err := reader.Read()
PRead(e) ==
  /\ eng[e].pc = "read"
  /\ Len(eng[e].reads) < MaxPairReads
  /\ \E o \in PairReadOutcomes(e, Len(eng[e].reads) + 1) :
       eng' = [eng EXCEPT ![e].buffer = o.chunk,
                          ![e].err = o.err,
                          ![e].reads = Append(@, o),
                          ![e].pc = "checkErr"]
  /\ UNCHANGED <<sharedMarks, copyVars, mwVars, rtVars, facVars>>

\* if err != nil { return err }
PReadError(e) ==
  /\ eng[e].pc = "checkErr"
  /\ eng[e].err # Nil
  /\ eng' = [eng EXCEPT ![e].ret = eng[e].err, ![e].pc = "return"]
  /\ UNCHANGED <<sharedMarks, copyVars, mwVars, rtVars, facVars>>

PTimerUpdateLost(e) ==
  /\ eng[e].pc = "checkErr"
  /\ eng[e].err = Nil
  /\ sharedMarks' = Len(eng[e].reads)
  /\ eng' = [eng EXCEPT ![e].pc = "checkEmpty"]
  /\ UNCHANGED <<copyVars, mwVars, rtVars, facVars>>

\* timer.Update() on the shared timer
PTimerUpdate(e) ==
  /\ eng[e].pc = "checkErr"
  /\ eng[e].err = Nil
  /\ sharedMarks' = sharedMarks + 1
  /\ eng' = [eng EXCEPT ![e].pc = "checkEmpty"]
  /\ UNCHANGED <<copyVars, mwVars, rtVars, facVars>>

\* if buffer.IsEmpty() { buffer.Release(); continue }
PSkipEmpty(e) ==
  /\ eng[e].pc = "checkEmpty"
  /\ IsEmpty(eng[e].buffer)
  /\ eng' = [eng EXCEPT ![e].releases = @ + 1, ![e].pc = "read"]
  /\ UNCHANGED <<sharedMarks, copyVars, mwVars, rtVars, facVars>>

\* err := writer.Write(buffer), on engine e's own writer
PWrite(e) ==
  /\ eng[e].pc = "checkEmpty"
  /\ ~IsEmpty(eng[e].buffer)
  /\ \E x \in {Nil} \cup Errors :
       eng' = [eng EXCEPT
                 ![e].werr = x,
                 ![e].writes = Append(@, [chunk |-> eng[e].buffer,
                                          err |-> x]),
                 ![e].sink = IF x = Nil THEN Append(@, eng[e].buffer)
                             ELSE @,
                 ![e].pc = IF x = Nil THEN "read" ELSE "writeFail"]
  /\ UNCHANGED <<sharedMarks, copyVars, mwVars, rtVars, facVars>>

\* if err != nil { buffer.Release(); return err }
PWriteError(e) ==
  /\ eng[e].pc = "writeFail"
  /\ eng' = [eng EXCEPT ![e].releases = @ + 1,
                        ![e].ret = eng[e].werr,
                        ![e].pc = "return"]
  /\ UNCHANGED <<sharedMarks, copyVars, mwVars, rtVars, facVars>>

\* Copy: translate what copyInternal returned and return.
PCopyReturn(e) ==
  /\ eng[e].pc = "return"
  /\ eng' = [eng EXCEPT ![e].result = CopyResult(eng[e].ret),
                        ![e].pc = "done"]
  /\ UNCHANGED <<sharedMarks, copyVars, mwVars, rtVars, facVars>>

NextPair ==
  \E e \in Engines :
    \/ PRead(e)
    \/ PReadError(e)
    \/ PTimerUpdate(e)
    \/ PSkipEmpty(e)
    \/ PWrite(e)
    \/ PWriteError(e)
    \/ PCopyReturn(e)

SpecPair == InitPair /\ [][NextPair]_vars

\* One Copy run on its own, as a function of what its reader returned (R,
\* in order) and of the errors its writer returned (W, in order): whether
\* it has returned, what it returned, the chunks its sink accepted and the
\* timer marks it made.
RECURSIVE CopyAlone(_, _, _)
CopyAlone(R, W, acc) ==
  IF R = <<>> THEN acc
  ELSE IF Head(R).err # Nil
       THEN [acc EXCEPT !.done = TRUE, !.result = CopyResult(Head(R).err)]
  ELSE LET marked == [acc EXCEPT !.marks = @ + 1]
       IN IF IsEmpty(Head(R).chunk) THEN CopyAlone(Tail(R), W, marked)
          ELSE IF W = <<>> THEN marked
          ELSE IF Head(W) # Nil
               THEN [marked EXCEPT !.done = TRUE,
                                   !.result = CopyResult(Head(W))]
          ELSE CopyAlone(Tail(R), Tail(W),
                         [marked EXCEPT
                            !.delivered = Append(@, Head(R).chunk)])

WriteErrors(e) == [k \in 1..Len(eng[e].writes) |-> eng[e].writes[k].err]

Alone(e) ==
  CopyAlone(eng[e].reads, WriteErrors(e),
            [done |-> FALSE, result |-> Nil, delivered |-> <<>>,
             marks |-> 0])

\* A successful Read of engine e whose timer mark is its very next step.
MarkPending(e) ==
  IF eng[e].pc = "checkErr" /\ eng[e].err = Nil THEN 1 ELSE 0

\* C15: two Copy runs that share only the timer do not interfere.  Under
\* every interleaving each run's sink holds the chunks, and each run
\* returns the value, of that run alone on the same reader and writer; a
\* run is at its return only when its own Read or Write failed; and the
\* shared timer counts the successful reads of both runs.
C15_NoInterference ==
  /\ \A e \in Engines :
       /\ eng[e].sink = Alone(e).delivered
       /\ eng[e].pc \in {"return", "done"} => Alone(e).done
       /\ eng[e].pc = "done" => eng[e].result = Alone(e).result
  /\ sharedMarks =
       (Alone(1).marks - MarkPending(1)) + (Alone(2).marks - MarkPending(2))

C15_Witness ==
  /\ eng[1].pc = "done"
  /\ eng[1].result = ErrIO
  /\ Len(eng[1].sink) = 1
  /\ eng[2].pc = "checkEmpty"
  /\ Len(eng[2].reads) = 2
  /\ Len(eng[2].sink) = 1
  /\ sharedMarks = 3

\* ------------------------------------------------------------ factories
\* NewMergingReader: NewMergingReaderSize with the default size.
NewMergingReader == NewMergingReaderSize(ScratchSize)

\* NewWriter: a forwarding adapter over a handle that is a
\* MultiBufferWriter, else a BufferToBytesWriter.
NewWriter(isMultiBufferWriter) ==
  IF isMultiBufferWriter
  THEN [kind |-> "writerAdapter", bufLen |-> 0]
  ELSE [kind |-> "BufferToBytesWriter", bufLen |-> 0]

\* NewMergingWriter: NewMergingWriterSize with the default size.
NewMergingWriter == NewMergingWriterSize(MergeSize)

\* The handles a caller may pass and the factory it calls on each.
ReaderHandles ==
  [native : BOOLEAN, factory : {"NewReader", "NewMergingReader"},
   size : {0}]
    \cup [native : BOOLEAN, factory : {"NewMergingReaderSize"},
          size : 1..MaxScratch]

WriterHandles ==
  [native : BOOLEAN, factory : {"NewWriter", "NewMergingWriter"},
   size : {0}]
    \cup [native : BOOLEAN, factory : {"NewMergingWriterSize"},
          size : 1..MaxMergeSize]

\* The Reader the chosen reader factory returns for handle h.
ReaderOf(h) ==
  CASE h.factory = "NewReader" -> NewReader(h.native)
    [] h.factory = "NewMergingReader" -> NewMergingReader
    [] h.factory = "NewMergingReaderSize" -> NewMergingReaderSize(h.size)

\* The mergingWriter a merging factory returns for handle h.
MergingWriterOf(h) ==
  IF h.factory = "NewMergingWriter" THEN NewMergingWriter
  ELSE NewMergingWriterSize(h.size)

\* The Writer the chosen writer factory returns for handle h.
WriterOf(h) ==
  IF h.factory = "NewWriter" THEN NewWriter(h.native)
  ELSE [kind |-> "mergingWriter", bufLen |-> MergingWriterOf(h).cap]

InitFac ==
  /\ pc = "idle"
  /\ buffer = NoChunk
  /\ err = Nil
  /\ werr = Nil
  /\ ret = Nil
  /\ result = Nil
  /\ timerMarks = 0
  /\ readLog = <<>>
  /\ writeLog = <<>>
  /\ relEngine = [i \in ChunkIds |-> 0]
  /\ relSink = [i \in ChunkIds |-> 0]
  /\ sinkKind = "none"
  /\ sinkData = <<>>
  /\ eng = [e \in Engines |-> IdleEngine]
  /\ sharedMarks = 0
  /\ handles \in [reader : ReaderHandles, writer : WriterHandles]
  /\ rtReader = ReaderOf(handles.reader)
  /\ rtBytes = ToBytesReader(rtReader)
  /\ rtEnv = [IdleRTEnv EXCEPT !.content = [k \in 1..MaxStream |-> k]]
  /\ fWriter = WriterOf(handles.writer)
  /\ mw = IF handles.writer.factory = "NewWriter" THEN IdleMW
          ELSE MergingWriterOf(handles.writer)
  /\ mwEnv = [IdleMWEnv EXCEPT !.size = fWriter.bufLen]

\* Write(chunk) through the writer w: a mergingWriter merges; a
\* BufferToBytesWriter writes the bytes at once and releases the chunk; a
\* writerAdapter forwards the chunk to the handle.
WriteThrough(w, m, env, data) ==
  IF w.kind = "mergingWriter"
  THEN LET r == MergeWrite(m, env.under, data)
       IN [mw |-> r.w,
           env |-> [env EXCEPT !.under = r.under, !.arrived = @ \o data,
                               !.writes = @ + 1, !.released = @ + 1]]
  ELSE [mw |-> m,
        env |-> [env EXCEPT
                   !.under = Append(@, data), !.arrived = @ \o data,
                   !.writes = @ + 1,
                   !.released = @ + (IF w.kind = "BufferToBytesWriter"
                                     THEN 1 ELSE 0)]]

\* One chunk relayed: a Read through the reader the factory returned, and,
\* when it brought bytes, a Write of them through the writer the factory
\* returned.
FRelay ==
  /\ rtBytes.err = Nil
  /\ \E o \in StreamOutcomes(rtReader, rtEnv.content, rtEnv.pos) :
       IF o.err # Nil
       THEN /\ rtBytes' = [rtBytes EXCEPT !.err = o.err]
            /\ UNCHANGED <<rtEnv, mw, mwEnv>>
       ELSE IF o.data = <<>>
       THEN UNCHANGED <<rtBytes, rtEnv, mw, mwEnv>>
       ELSE LET r == WriteThrough(fWriter, mw, mwEnv, o.data)
            IN /\ rtEnv' = [rtEnv EXCEPT !.pos = @ + Len(o.data),
                                         !.chunks = Append(@, Len(o.data))]
               /\ mw' = r.mw
               /\ mwEnv' = r.env
               /\ UNCHANGED rtBytes
  /\ UNCHANGED <<copyVars, rtReader, pairVars, facVars>>

NextFac ==
  \/ FRelay

SpecFac == InitFac /\ [][NextFac]_vars

ForwardingReader == [kind |-> "readerAdpater", bufLen |-> 0]
ForwardingWriter == [kind |-> "writerAdapter", bufLen |-> 0]
ScratchReader(n) == [kind |-> "BytesToBufferReader", bufLen |-> n]
PassThroughWriter == [kind |-> "BufferToBytesWriter", bufLen |-> 0]
MergingWriter(n) == [kind |-> "mergingWriter", bufLen |-> n]

\* C16 as stated: whatever factory is called, a handle that natively reads
\* (writes) chunks gets a forwarding adapter without a buffer; any other
\* handle gets from NewReader a 32 KiB scratch-buffer adapter and from
\* NewWriter a pass-through writer; at all times.
C16_EveryFactoryDispatches ==
  /\ handles.reader.native => rtReader = ForwardingReader
  /\ handles.writer.native => fWriter = ForwardingWriter
  /\ (~handles.reader.native /\ handles.reader.factory = "NewReader") =>
        rtReader = ScratchReader(ScratchSize)
  /\ (~handles.writer.native /\ handles.writer.factory = "NewWriter") =>
        fWriter = PassThroughWriter

\* C16 (amended): NewReader and NewWriter dispatch on the capability of
\* the handle; the merging factories never do and return a buffer adapter
\* of the default or the requested size; what was returned at construction
\* is what the adapter is at every later time.
C16_Dispatch ==
  /\ handles.reader.factory = "NewReader" =>
        rtReader = IF handles.reader.native THEN ForwardingReader
                   ELSE ScratchReader(ScratchSize)
  /\ handles.reader.factory = "NewMergingReader" =>
        rtReader = ScratchReader(ScratchSize)
  /\ handles.reader.factory = "NewMergingReaderSize" =>
        rtReader = ScratchReader(handles.reader.size)
  /\ handles.writer.factory = "NewWriter" =>
        fWriter = IF handles.writer.native THEN ForwardingWriter
                  ELSE PassThroughWriter
  /\ handles.writer.factory = "NewMergingWriter" =>
        (fWriter = MergingWriter(MergeSize) /\ mw.cap = MergeSize)
  /\ handles.writer.factory = "NewMergingWriterSize" =>
        (fWriter = MergingWriter(handles.writer.size)
           /\ mw.cap = handles.writer.size)
  /\ rtBytes.stream = rtReader

C16_Witness ==
  /\ handles.reader = [native |-> TRUE, factory |-> "NewReader", size |-> 0]
  /\ handles.writer = [native |-> FALSE, factory |-> "NewWriter", size |-> 0]
  /\ rtReader = ForwardingReader
  /\ fWriter = PassThroughWriter
  /\ rtBytes.err = EOF
  /\ mwEnv.writes >= 2
  /\ mwEnv.arrived = rtEnv.content

====
